---- MODULE Spec2Model ----
(***************************************************************************)
(* The cache-backed API access layer of the Raydium dashboard:             *)
(*   database.py    DatabaseManager   (SQLite response cache)              *)
(*   api_client.py  TokenTerminalAPI  (retrying requests, read-through)    *)
(*                                                                         *)
(* Every SQL statement runs on a connection of its own and is one atomic   *)
(* step; a fetch is a process that moves through these steps, so several   *)
(* fetches interleave at statement granularity.  One iteration of the      *)
(* retry loop touches only the fetch's own locals and is one step.         *)
(*                                                                         *)
(* Time is in whole seconds.  clock is UTC, which SQLite's                 *)
(* CURRENT_TIMESTAMP stamps; datetime.now() reads the local wall clock,    *)
(* clock + tzOffset.  time.sleep is recorded in the fetch's log; the wall  *)
(* clock advances through Tick, which may fire between any two steps.      *)
(***************************************************************************)
EXTENDS Integers, Sequences, FiniteSets, TLC

VARIABLES
    clock,      \* UTC seconds since the start of the run
    tzOffset,   \* local time minus UTC, in seconds (the host's time zone)
    db,         \* table name -> sequence of rows, in rowid order
    pc,         \* per fetch: the statement it is about to run
    call,       \* per fetch: the function called and its arguments
    attempt,    \* per fetch: _make_request's loop variable
    data,       \* per fetch: the local `data` (the result of _make_request)
    ret,        \* per fetch: what the call gave its caller
    log,        \* per fetch: the requests sent and the sleeps taken, in order
    seen,       \* per fetch: what its cache reads observed
    committed,  \* table name -> the puts in force: the last one of each key
    page,       \* main.py: how far the page's financial sections have got
    frame       \* data_processor.py: a transform's argument and its result

vars == <<clock, tzOffset, db, pc, call, attempt, data, ret, log, seen, committed,
          page, frame>>

-----------------------------------------------------------------------------
(* Bounds of the model *)

MaxTicks == 2

\* The fetches that may overlap.
Procs == {1, 2}

\* The wall clock moves in steps of half the freshness window, so that an
\* entry is read at the ages 0, W/2 (fresh), W (the first stale age) and more.
ClockStep == 3600 \div 2

TicksTaken(t) == t \div ClockStep

\* Hosts in UTC and one hour east of it.
TzOffsets == {0, 3600}

-----------------------------------------------------------------------------
(* Values *)

None == "None"
EmptyPayload == "{}"            \* a JSON value Python treats as false
Payloads == {"A", "B"}          \* non-empty JSON objects
Bodies == Payloads \cup {EmptyPayload}
BadJson == "<html>"             \* a 200 body that is not JSON

StorageError == "sqlite3.Error"
ValueError == "ValueError"

\* Python's truth test, as in `if cached:` and `if data and use_cache:`.
Truthy(v) == v \notin {None, EmptyPayload}

\* json.dumps / json.loads: the payload travels as TEXT in the data column.
Dumps(v) == <<"json", v>>
Loads(s) == s[2]

\* CURRENT_TIMESTAMP writes UTC as text; fromisoformat parses it as a naive
\* datetime.
CurrentTimestamp == <<"ts", clock>>
FromIsoFormat(s) == s[2]

\* datetime.datetime.now(): the naive local time.
Now == clock + tzOffset

-----------------------------------------------------------------------------
(* database.py *)

Tables == {"financial_statements", "metrics_breakdown", "time_series"}

\* Tables created without their UNIQUE clause: only the rowid is unique.
UniqueColumns_RowidOnly(table) == {"id"}

\* The UNIQUE constraint of each table.
UniqueColumns(table) ==
    CASE table = "financial_statements" -> {"project_slug", "granularity"}
      [] table = "metrics_breakdown"    -> {"project_slug"}
      [] table = "time_series"          -> {"project_slug", "metric_id"}

\* WHERE k1 = ? AND k2 = ? ...
Matches(row, identifier) ==
    \A k \in DOMAIN identifier : k \in DOMAIN row /\ row[k] = identifier[k]

SelectWhere(table, identifier) ==
    SelectSeq(db[table], LAMBDA r : Matches(r, identifier))

\* cursor.fetchone(): the first row of the result, or nothing.
FetchOne(rows) == IF rows = <<>> THEN <<>> ELSE <<Head(rows)>>

\* hours: int = 1, the default get_cached_data leaves in place.
DefaultHours == 1

\* An entry is still fresh at the age of exactly `hours`.
FreshAt_Inclusive(now, created_at, hours) ==
    now - FromIsoFormat(created_at) <= hours * 3600

\* (now - created_at).total_seconds() < hours * 3600
FreshAt(now, created_at, hours) == now - FromIsoFormat(created_at) < hours * 3600

\* SELECT created_at FROM table WHERE ... ; fetchone
SelectCreatedAt(table, identifier) ==
    LET result == FetchOne(SelectWhere(table, identifier))
    IN  IF result = <<>> THEN <<>> ELSE <<result[1]["created_at"]>>

\* An entry counts as fresh whatever its age.
is_data_fresh_AnyAge(table, identifier, hours) ==
    SelectCreatedAt(table, identifier) # <<>>

\* is_data_fresh(table, identifier, hours)
is_data_fresh(table, identifier, hours) ==
    LET result == SelectCreatedAt(table, identifier)
    IN  IF result = <<>> THEN FALSE
        ELSE FreshAt(Now, result[1], hours)

\* The second query of get_cached_data: SELECT data ... fetchone, json.loads.
SelectData(table, identifier) ==
    LET result == FetchOne(SelectWhere(table, identifier))
    IN  IF result # <<>> THEN Loads(result[1]["data"]) ELSE None

\* The row cache_data writes: the identifier's columns, data, created_at.
NewRow(identifier, v) ==
    [c \in DOMAIN identifier \cup {"data", "created_at"} |->
        IF c = "data" THEN Dumps(v)
        ELSE IF c = "created_at" THEN CurrentTimestamp
        ELSE identifier[c]]

\* Two rows collide on a UNIQUE constraint.
Conflicts(r, new, cols) ==
    /\ cols \subseteq DOMAIN r
    /\ cols \subseteq DOMAIN new
    /\ \A c \in cols : r[c] = new[c]

\* INSERT OR IGNORE: a row that collides is not written.
InsertOrReplace_Ignore(rows, table, new) ==
    IF \E i \in 1..Len(rows) : Conflicts(rows[i], new, UniqueColumns(table))
      THEN rows
      ELSE Append(rows, new)

\* INSERT OR REPLACE: the rows the new one collides with are deleted, then
\* the new row is inserted at the end.
InsertOrReplace(rows, table, new) ==
    Append(SelectSeq(rows, LAMBDA r : ~Conflicts(r, new, UniqueColumns(table))), new)

\* cache_data(table, identifier, data): the table after the commit.
cache_data(table, identifier, v) ==
    InsertOrReplace(db[table], table, NewRow(identifier, v))

-----------------------------------------------------------------------------
(* api_client.py: the three queries *)

ProjectSlugs == {"raydium"}
Granularities == {"month"}
MetricIds == {"fees", "revenue"}

FinancialStatementCall(project_slug, granularity, use_cache) ==
    [fn |-> "get_financial_statement", table |-> "financial_statements",
     cache_key |-> [project_slug |-> project_slug, granularity |-> granularity],
     use_cache |-> use_cache]

MetricsBreakdownCall(project_slug, use_cache) ==
    [fn |-> "get_metrics_breakdown", table |-> "metrics_breakdown",
     cache_key |-> [project_slug |-> project_slug],
     use_cache |-> use_cache]

TimeSeriesCall(metric_id, project_slug, use_cache) ==
    [fn |-> "get_time_series", table |-> "time_series",
     cache_key |-> [project_slug |-> project_slug, metric_id |-> metric_id],
     use_cache |-> use_cache]

Calls ==
    {FinancialStatementCall(s, g, u) :
        s \in ProjectSlugs, g \in Granularities, u \in BOOLEAN}
    \cup {MetricsBreakdownCall(s, u) : s \in ProjectSlugs, u \in BOOLEAN}
    \cup {TimeSeriesCall(m, s, u) :
        m \in MetricIds, s \in ProjectSlugs, u \in BOOLEAN}

NoCall == [fn |-> "none"]

\* What a fetch's cache reads observed: whether is_data_fresh ran, the
\* clock value it read and the entry it found (none: <<>>), whether
\* the payload read ran, and the statement that failed, if one did.
NothingSeen ==
    [checked |-> FALSE, now |-> 0, row |-> <<>>,
     read |-> FALSE, failed |-> "none"]

-----------------------------------------------------------------------------
(* _make_request's constants *)

\* A loop of four iterations.
MaxAttempts_Four == 3 + 1

MaxAttempts == 3        \* for attempt in range(3)
LastRetry == 2          \* if attempt < 2
TransportWait == 1      \* time.sleep(1)

\* A backoff that starts at 2 s.
Backoff_FromTwo(a) == 2 ^ (a + 1)

\* time.sleep(2 ** attempt)
Backoff(a) == 2 ^ a

\* Every status but 200 is retried.
StatusClass_RetryErrors(status) ==
    IF status = 200 THEN "ok" ELSE "rate_limited"

\* if status_code == 200 ... elif status_code == 429 ... else
StatusClass(status) ==
    IF status = 200 THEN "ok"
    ELSE IF status = 429 THEN "rate_limited"
    ELSE "error"

-----------------------------------------------------------------------------
(* The upstream's answers: status 0 stands for a transport failure *)

Responses ==
    {[status |-> 200, body |-> b] : b \in Bodies \cup {BadJson}}
    \cup {[status |-> s, body |-> None] : s \in {429, 500, 0}}

RequestEvent(r) == [ev |-> "request", status |-> r.status]
SleepEvent(secs) == [ev |-> "sleep", secs |-> secs]

-----------------------------------------------------------------------------

\* Nothing of the page has run; no transform has been called.
NoPage == [at |-> "start"]
NoFrame == [fn |-> "none"]

\* An empty cache store and no fetch under way.
Quiet ==
    /\ clock = 0
    /\ db = [t \in Tables |-> <<>>]
    /\ pc = [p \in Procs |-> "idle"]
    /\ call = [p \in Procs |-> NoCall]
    /\ attempt = [p \in Procs |-> 0]
    /\ data = [p \in Procs |-> None]
    /\ ret = [p \in Procs |-> None]
    /\ log = [p \in Procs |-> <<>>]
    /\ seen = [p \in Procs |-> NothingSeen]
    /\ committed = [t \in Tables |-> {}]

Init ==
    /\ Quiet
    /\ tzOffset \in TzOffsets
    /\ page = NoPage
    /\ frame = NoFrame

\* Time passes.
Tick ==
    /\ TicksTaken(clock) < MaxTicks
    /\ clock' = clock + ClockStep
    /\ UNCHANGED <<tzOffset, db, pc, call, attempt, data, ret, log, seen, committed,
                   page, frame>>

\* A caller invokes one of the three queries.
Call(p, c) ==
    /\ pc[p] = "idle"
    /\ call' = [call EXCEPT ![p] = c]
    /\ pc' = [pc EXCEPT ![p] = IF c.use_cache THEN "is_data_fresh" ELSE "request"]
    /\ attempt' = [attempt EXCEPT ![p] = 0]
    /\ data' = [data EXCEPT ![p] = None]
    /\ ret' = [ret EXCEPT ![p] = None]
    /\ log' = [log EXCEPT ![p] = <<>>]
    /\ seen' = [seen EXCEPT ![p] = NothingSeen]
    /\ UNCHANGED <<clock, tzOffset, db, committed, page, frame>>

\* get_cached_data, first statement: the freshness check.  A stale or
\* missing entry makes get_cached_data return None, and the query goes on to
\* the upstream.
GetCachedDataCheck(p) ==
    /\ pc[p] = "is_data_fresh"
    /\ LET c == call[p]
           fresh == is_data_fresh(c.table, c.cache_key, DefaultHours)
       IN  /\ seen' = [seen EXCEPT ![p] =
                  [@ EXCEPT !.checked = TRUE, !.now = Now,
                            !.row = FetchOne(SelectWhere(c.table, c.cache_key))]]
           /\ pc' = [pc EXCEPT ![p] = IF fresh THEN "select_data" ELSE "request"]
    /\ UNCHANGED <<clock, tzOffset, db, call, attempt, data, ret, log, committed,
                   page, frame>>

\* The payload read whose result the query does not return: it goes on to
\* the upstream.
GetCachedDataRead_FallThrough(p) ==
    /\ pc[p] = "select_data"
    /\ seen' = [seen EXCEPT ![p] = [@ EXCEPT !.read = TRUE]]
    /\ pc' = [pc EXCEPT ![p] = "request"]
    /\ UNCHANGED <<clock, tzOffset, db, call, attempt, data, ret, log, committed,
                   page, frame>>

\* get_cached_data, second statement: the payload read; then the query's
\* `if cached: return cached`.
GetCachedDataRead(p) ==
    /\ pc[p] = "select_data"
    /\ LET c == call[p]
           cached == SelectData(c.table, c.cache_key)
       IN  /\ seen' = [seen EXCEPT ![p] = [@ EXCEPT !.read = TRUE]]
           /\ IF Truthy(cached)
                 THEN /\ ret' = [ret EXCEPT ![p] = cached]
                      /\ pc' = [pc EXCEPT ![p] = "done"]
                 ELSE /\ ret' = ret
                      /\ pc' = [pc EXCEPT ![p] = "request"]
    /\ UNCHANGED <<clock, tzOffset, db, call, attempt, data, log, committed,
                   page, frame>>

\* _make_request returns d; the query then runs `if use_cache:`.
Returned_CacheAnything(p, d, events) ==
    /\ data' = [data EXCEPT ![p] = d]
    /\ log' = [log EXCEPT ![p] = @ \o events]
    /\ IF call[p].use_cache
          THEN /\ pc' = [pc EXCEPT ![p] = "cache_data"]
               /\ ret' = ret
          ELSE /\ pc' = [pc EXCEPT ![p] = "done"]
               /\ ret' = [ret EXCEPT ![p] = d]
    /\ UNCHANGED attempt

\* _make_request returns d; the query then runs `if data and use_cache:`.
Returned(p, d, events) ==
    /\ data' = [data EXCEPT ![p] = d]
    /\ log' = [log EXCEPT ![p] = @ \o events]
    /\ IF Truthy(d) /\ call[p].use_cache
          THEN /\ pc' = [pc EXCEPT ![p] = "cache_data"]
               /\ ret' = ret
          ELSE /\ pc' = [pc EXCEPT ![p] = "done"]
               /\ ret' = [ret EXCEPT ![p] = d]
    /\ UNCHANGED attempt

\* `continue`: the loop goes on to its next iteration, or falls off its end
\* and _make_request returns None.
Continue(p, events) ==
    IF attempt[p] + 1 < MaxAttempts
      THEN /\ attempt' = [attempt EXCEPT ![p] = @ + 1]
           /\ log' = [log EXCEPT ![p] = @ \o events]
           /\ UNCHANGED <<pc, data, ret>>
      ELSE Returned(p, None, events)

\* An exception leaves the query.
Raise(p, e, events) ==
    /\ ret' = [ret EXCEPT ![p] = e]
    /\ pc' = [pc EXCEPT ![p] = "done"]
    /\ log' = [log EXCEPT ![p] = @ \o events]
    /\ UNCHANGED <<attempt, data>>

\* except RequestException: sleep a second unless this was the last attempt.
AfterFailure(a) ==
    IF a < LastRetry THEN <<SleepEvent(TransportWait)>> ELSE <<>>

\* One iteration of _make_request's loop with the upstream answering r.
\* response.json() on a body that is not JSON raises an error that is a
\* RequestException in some versions of requests (jsonErrorCaught) and a
\* plain ValueError in others.
Attempt(p, r, jsonErrorCaught) ==
    /\ pc[p] = "request"
    /\ attempt[p] < MaxAttempts
    /\ LET a == attempt[p]
           req == <<RequestEvent(r)>>
       IN  CASE r.status = 0 -> Continue(p, req \o AfterFailure(a))
             [] r.status # 0 /\ StatusClass(r.status) = "ok" ->
                    IF r.body # BadJson THEN Returned(p, r.body, req)
                    ELSE IF jsonErrorCaught THEN Continue(p, req \o AfterFailure(a))
                    ELSE Raise(p, ValueError, req)
             [] r.status # 0 /\ StatusClass(r.status) = "rate_limited" ->
                    Continue(p, req \o <<SleepEvent(Backoff(a))>>)
             [] OTHER -> Returned(p, None, req)
    /\ UNCHANGED <<clock, tzOffset, db, call, seen, committed, page, frame>>

\* The write-through: cache_data, then `return data`.
CacheData(p) ==
    /\ pc[p] = "cache_data"
    /\ LET c == call[p]
       IN  /\ db' = [db EXCEPT ![c.table] = cache_data(c.table, c.cache_key, data[p])]
           /\ committed' = [committed EXCEPT ![c.table] =
                  {w \in @ : w.cache_key # c.cache_key}
                  \cup {[cache_key |-> c.cache_key, payload |-> data[p], at |-> clock]}]
    /\ ret' = [ret EXCEPT ![p] = data[p]]
    /\ pc' = [pc EXCEPT ![p] = "done"]
    /\ UNCHANGED <<clock, tzOffset, call, attempt, data, log, seen,
                   page, frame>>

\* The caller takes the result; the fetch's locals are gone.
Return(p) ==
    /\ pc[p] = "done"
    /\ pc' = [pc EXCEPT ![p] = "idle"]
    /\ call' = [call EXCEPT ![p] = NoCall]
    /\ attempt' = [attempt EXCEPT ![p] = 0]
    /\ data' = [data EXCEPT ![p] = None]
    /\ ret' = [ret EXCEPT ![p] = None]
    /\ log' = [log EXCEPT ![p] = <<>>]
    /\ seen' = [seen EXCEPT ![p] = NothingSeen]
    /\ UNCHANGED <<clock, tzOffset, db, committed, page, frame>>

\* A statement of the cache store fails (database locked, disk full, file
\* unreadable): sqlite3 raises, nothing is committed, and neither
\* database.py nor api_client.py catches it.
StorageFault(p) ==
    /\ pc[p] \in {"is_data_fresh", "select_data", "cache_data"}
    /\ ret' = [ret EXCEPT ![p] = StorageError]
    /\ pc' = [pc EXCEPT ![p] = "done"]
    /\ seen' = [seen EXCEPT ![p] = [@ EXCEPT !.failed = pc[p]]]
    /\ UNCHANGED <<clock, tzOffset, db, call, attempt, data, log, committed,
                   page, frame>>

\* The steps of one fetch, called with one of `calls` while the upstream
\* answers with one of `responses`.
Fetch(p, calls, responses) ==
    \/ \E c \in calls : Call(p, c)
    \/ GetCachedDataCheck(p)
    \/ GetCachedDataRead(p)
    \/ \E r \in responses, j \in BOOLEAN : Attempt(p, r, j)
    \/ CacheData(p)
    \/ Return(p)

\* The steps of a fetch that bypasses the cache.
Request(p, calls, responses) ==
    \/ \E c \in calls : Call(p, c)
    \/ \E r \in responses, j \in BOOLEAN : Attempt(p, r, j)
    \/ Return(p)

\* The dashboard as section 5 of the design describes it: single-threaded,
\* one fetch at a time.
Main == CHOOSE p \in Procs : \A q \in Procs : p <= q

\* The retry loop on its own: queries that bypass the cache, every answer
\* of the upstream.
NextRequest == Request(Main, {c \in Calls : ~c.use_cache}, Responses)

SpecRequest == Init /\ [][NextRequest]_vars

\* The read-through cache over the three queries, one fetch at a time.
CacheResponses == {r \in Responses : r.status # 0 /\ r.body # BadJson}
DashboardCalls ==
    {c \in Calls : c.fn = "get_time_series" => c.cache_key["metric_id"] = "fees"}

Next == Tick \/ Fetch(Main, DashboardCalls, CacheResponses)

Spec == Init /\ [][Next]_vars

\* The time series of several metrics in one table, one fetch at a time.
SeriesCalls == {c \in Calls : c.fn = "get_time_series"}

NextSeries == Tick \/ Fetch(Main, SeriesCalls, CacheResponses)

SpecSeries == Init /\ [][NextSeries]_vars

\* Overlapping fetches of one time series (several chart panels loading in
\* parallel against one cache store); a statement may fail on a locked
\* database.
ConcurrentCalls == {c \in DashboardCalls : c.fn = "get_time_series" /\ c.use_cache}
ConcurrentResponses == {r \in Responses : r.status = 500 \/ r.body \in Payloads}

NextConcurrent ==
    \/ Tick
    \/ \E p \in Procs : Fetch(p, ConcurrentCalls, ConcurrentResponses)
    \/ \E p \in Procs : StorageFault(p)

SpecConcurrent == Init /\ [][NextConcurrent]_vars

\* One fetch at a time against a cache store whose statements may fail.
NextFault == Next \/ StorageFault(Main)

SpecFault == Init /\ [][NextFault]_vars

-----------------------------------------------------------------------------
(* What a fetch's log says *)

Requests(p) == SelectSeq(log[p], LAMBDA e : e.ev = "request")
Sleeps(p) == SelectSeq(log[p], LAMBDA e : e.ev = "sleep")

\* The statuses the upstream answered to the fetch's requests.
Statuses(p) == {Requests(p)[i].status : i \in 1..Len(Requests(p))}

\* The events of the log before its n-th request.
Before(p, n) ==
    LET at == {i \in 1..Len(log[p]) :
                  /\ log[p][i].ev = "request"
                  /\ Len(SelectSeq(SubSeq(log[p], 1, i), LAMBDA e : e.ev = "request")) = n}
    IN  IF at = {} THEN log[p] ELSE SubSeq(log[p], 1, (CHOOSE i \in at : TRUE) - 1)

-----------------------------------------------------------------------------
(* C2: when the upstream answers 429 to every request, one call of         *)
(* _make_request sends exactly 3 requests, has slept 1 s after the first   *)
(* and 2 s after the second before it sends the third, sends no fourth,    *)
(* and returns None.                                                       *)

RateLimited == [ev |-> "request", status |-> 429]

C2_RetryBudget ==
    \A p \in Procs :
        (log[p] # <<>> /\ Statuses(p) = {429}) =>
            /\ Len(Requests(p)) <= 3
            /\ Len(Requests(p)) >= 2 =>
                   Before(p, 2) = <<RateLimited, [ev |-> "sleep", secs |-> 1]>>
            /\ Len(Requests(p)) = 3 =>
                   Before(p, 3) = <<RateLimited, [ev |-> "sleep", secs |-> 1],
                                   RateLimited, [ev |-> "sleep", secs |-> 2]>>
            /\ pc[p] = "done" => (Len(Requests(p)) = 3 /\ ret[p] = None)
            /\ pc[p] # "done" => (pc[p] = "request" /\ Len(Requests(p)) < 3)

C2_Witness ==
    /\ pc[Main] = "done"
    /\ Statuses(Main) = {429}
    /\ Len(Requests(Main)) = 3
    /\ ret[Main] = None

-----------------------------------------------------------------------------
(* C3: whatever the upstream answers (200, 429, another status, a          *)
(* transport failure, in any order), one call of _make_request sends at    *)
(* most 3 requests, 429s and transport failures drawing on the same        *)
(* budget, and has returned once the third is answered; when no attempt    *)
(* got a 200 the call gives its caller None, not an exception.             *)

C3_AttemptBudget ==
    \A p \in Procs :
        /\ Len(Requests(p)) <= 3
        /\ pc[p] = "request" => Len(Requests(p)) < 3
        /\ (pc[p] = "done" /\ 200 \notin Statuses(p)) => ret[p] = None

C3_Witness ==
    /\ pc[Main] = "done"
    /\ Statuses(Main) = {429, 0}
    /\ Len(Requests(Main)) = 3
    /\ ret[Main] = None

-----------------------------------------------------------------------------
(* C4: as soon as an attempt receives a status that is neither 200 nor     *)
(* 429, _make_request returns None: that request is the last event of the  *)
(* call (no sleep, no further request), whatever the earlier attempts got. *)

HardFailure(e) == e.ev = "request" /\ e.status \notin {200, 429, 0}

C4_HardFailureNotRetried ==
    \A p \in Procs :
        \A i \in 1..Len(log[p]) :
            HardFailure(log[p][i]) =>
                /\ i = Len(log[p])
                /\ pc[p] = "done"
                /\ ret[p] = None

C4_Witness ==
    /\ pc[Main] = "done"
    /\ Len(Requests(Main)) = 3
    /\ Statuses(Main) = {429, 0, 500}
    /\ HardFailure(log[Main][Len(log[Main])])

-----------------------------------------------------------------------------
(* What a fetch found in the cache store *)

\* The rows now stored under the fetch's table and key.
Stored(p) == SelectWhere(call[p].table, call[p].cache_key)

\* The fetch's freshness check found an entry.
FoundEntry(p) == seen[p].checked /\ seen[p].row # <<>>

\* T: the created_at value stamped on the entry the check found.
StampedAt(p) == seen[p].row[1]["created_at"][2]

\* The payload of the entry the check found.
PayloadFound(p) == seen[p].row[1]["data"][2]

-----------------------------------------------------------------------------
(* C1: for an entry that cache_data stamped with created_at = T, a later   *)
(* get_cached_data on the same table and key whose freshness check reads   *)
(* the clock value T', with no put in between, returns the stored payload  *)
(* when T' - T < 3600 s and returns None when T' - T >= 3600 s, although   *)
(* the row is still in the table.                                          *)

C1_CacheFreshness ==
    \A p \in Procs :
        FoundEntry(p) =>
            IF seen[p].now - StampedAt(p) < 3600
              THEN \/ pc[p] = "select_data"
                   \/ /\ pc[p] = "done"
                      /\ seen[p].read
                      /\ ret[p] = PayloadFound(p)
              ELSE /\ ~seen[p].read
                   /\ pc[p] \in {"request", "cache_data", "done"}
                   /\ pc[p] = "done" => ret[p] = data[p]
                   /\ Stored(p) # <<>>

\* A hit on an entry half a window old.
C1_Witness ==
    /\ FoundEntry(Main)
    /\ seen[Main].now - StampedAt(Main) = 1800
    /\ pc[Main] = "done"
    /\ ret[Main] = PayloadFound(Main)

-----------------------------------------------------------------------------
(* C5: for each of the three queries, a fetch called with use_cache true   *)
(* whose key has a fresh entry in the cache store returns the stored       *)
(* payload and sends no request to the upstream.                           *)

Queries == {"get_financial_statement", "get_metrics_breakdown", "get_time_series"}

C5_CacheHitNoNetwork ==
    \A p \in Procs : \A fn \in Queries :
        (/\ FoundEntry(p)
         /\ call[p].fn = fn
         /\ call[p].use_cache
         /\ seen[p].now - StampedAt(p) < 3600) =>
            /\ log[p] = <<>>
            /\ attempt[p] = 0
            /\ pc[p] \in {"select_data", "done"}
            /\ pc[p] = "done" =>
                   /\ Stored(p) # <<>>
                   /\ ret[p] = Stored(p)[1]["data"][2]
                   /\ ret[p] \in Payloads

C5_Witness ==
    /\ FoundEntry(Main)
    /\ call[Main].fn = "get_metrics_breakdown"
    /\ pc[Main] = "done"
    /\ log[Main] = <<>>
    /\ ret[Main] \in Payloads

-----------------------------------------------------------------------------
(* C6: after a fetch with use_cache true whose upstream request succeeded  *)
(* (a 200 with a parsed payload), the cache store holds exactly that       *)
(* payload under the query's table and key, stamped with the time of the   *)
(* write, so that the next fetch of the key inside the freshness window    *)
(* (less than 3600 s after the write) is a hit.                            *)

\* The fetch went to the upstream and its last request was answered 200.
Succeeded(p) ==
    /\ pc[p] = "done"
    /\ log[p] # <<>>
    /\ log[p][Len(log[p])] = [ev |-> "request", status |-> 200]
    /\ ret[p] \in Bodies

\* The cache store holds the payload the fetch returned.
HoldsResult(p) ==
    /\ Len(Stored(p)) = 1
    /\ Stored(p)[1]["data"] = <<"json", ret[p]>>
    /\ Stored(p)[1]["created_at"][2] <= clock

\* The seconds between the write of the entry found and the check, both
\* on the UTC clock.
AgeFound(p) == (seen[p].now - tzOffset) - StampedAt(p)

C6_WriteThrough ==
    \A p \in Procs :
        /\ (Succeeded(p) /\ call[p].use_cache) => HoldsResult(p)
        /\ (FoundEntry(p) /\ AgeFound(p) < 3600) =>
               /\ log[p] = <<>>
               /\ pc[p] \in {"select_data", "done"}

-----------------------------------------------------------------------------
(* C7: when the upstream request succeeded and the write into the cache    *)
(* store fails with a storage error, the fetch still returns the upstream  *)
(* payload to its caller and does not propagate the storage error.         *)

C7_WriteFailureKeepsResult ==
    \A p \in Procs :
        seen[p].failed = "cache_data" =>
            /\ ret[p] # StorageError
            /\ ret[p] = data[p]

-----------------------------------------------------------------------------
(* C8: when a read of the cache store (the freshness check or the payload  *)
(* read) fails with a storage error during a fetch with use_cache true,    *)
(* the fetch treats it as a miss and goes on to the upstream request; the  *)
(* error does not reach its caller.                                        *)

C8_ReadFailureIsMiss ==
    \A p \in Procs :
        seen[p].failed \in {"is_data_fresh", "select_data"} =>
            /\ ret[p] # StorageError
            /\ pc[p] \in {"request", "cache_data", "done"}
            /\ pc[p] = "done" => log[p] # <<>>

-----------------------------------------------------------------------------
(* Rows and keys *)

\* The identifying columns of a row, with their values.
KeyOf(row) == [c \in DOMAIN row \ {"data", "created_at"} |-> row[c]]

RowsOf(rows, key) == SelectSeq(rows, LAMBDA r : KeyOf(r) = key)
RowsNotOf(rows, key) == SelectSeq(rows, LAMBDA r : KeyOf(r) # key)

OneRowPerKey(rows) ==
    \A i, j \in 1..Len(rows) : KeyOf(rows[i]) = KeyOf(rows[j]) => i = j

\* The step in which fetch p's cache_data commits.
PutBy(p) == pc[p] = "cache_data" /\ pc'[p] = "done" /\ seen'[p].failed = "none"

-----------------------------------------------------------------------------
(* C9: after any sequence of puts every table holds at most one row per    *)
(* key; a put leaves exactly one row for its key, holding the payload put  *)
(* and the created_at of that put, whether the key had a row before (with  *)
(* the same payload or another) or not, and leaves the other rows alone.   *)

PutEffect(p) ==
    LET t == call[p].table
        k == call[p].cache_key
    IN  /\ Len(RowsOf(db'[t], k)) = 1
        /\ RowsOf(db'[t], k)[1]["data"] = <<"json", data[p]>>
        /\ RowsOf(db'[t], k)[1]["created_at"] = <<"ts", clock>>
        /\ RowsNotOf(db'[t], k) = RowsNotOf(db[t], k)
        /\ \A u \in Tables \ {t} : db'[u] = db[u]

C9_UpsertIdempotence ==
    /\ [](\A t \in Tables : OneRowPerKey(db[t]))
    /\ [][\A p \in Procs : PutBy(p) => PutEffect(p)]_vars

\* The same payload was put a second time under a key, beside a row of
\* another key: one row of the key is left, with the later created_at.
C9_Witness ==
    /\ pc[Main] = "done"
    /\ log[Main] # <<>>
    /\ FoundEntry(Main)
    /\ PayloadFound(Main) = data[Main]
    /\ ret[Main] = data[Main]
    /\ Len(db[call[Main].table]) = 2
    /\ Len(Stored(Main)) = 1
    /\ Stored(Main)[1]["data"] = <<"json", data[Main]>>
    /\ Stored(Main)[1]["created_at"][2] > StampedAt(Main)

-----------------------------------------------------------------------------
(* C10: with fetches interleaved on one cache store, the puts to a (table, *)
(* key) leave exactly one row, which holds the payload and the created_at  *)
(* of the put that committed last, and a payload read returns the whole    *)
(* payload of one single put.                                              *)

\* The row a put leaves.
RowOfPut(w) ==
    [c \in DOMAIN w.cache_key \cup {"data", "created_at"} |->
        IF c = "data" THEN <<"json", w.payload>>
        ELSE IF c = "created_at" THEN <<"ts", w.at>>
        ELSE w.cache_key[c]]

LastWriterWins ==
    \A t \in Tables :
        /\ Len(db[t]) = Cardinality(committed[t])
        /\ {db[t][i] : i \in 1..Len(db[t])} = {RowOfPut(w) : w \in committed[t]}

\* The step in which fetch p's payload read returns.
ReadBy(p) == pc[p] = "select_data" /\ pc'[p] # "select_data" /\ seen'[p].failed = "none"

ReadsOnePut(p) ==
    \E w \in committed[call[p].table] :
        /\ w.cache_key = call[p].cache_key
        /\ ret'[p] = w.payload
        /\ pc'[p] = "done"

C10_ConcurrentAccess ==
    /\ []LastWriterWins
    /\ [][\A p \in Procs : ReadBy(p) => ReadsOnePut(p)]_vars

\* Two fetches that both missed on the empty table have both put, with
\* different payloads, under the same key.
C10_Witness ==
    /\ \A p \in Procs :
           /\ pc[p] = "done"
           /\ seen[p].checked
           /\ seen[p].row = <<>>
           /\ ret[p] = data[p]
           /\ ret[p] \in Payloads
    /\ \E p, q \in Procs : call[p].cache_key = call[q].cache_key /\ ret[p] # ret[q]
    /\ Len(db["time_series"]) = 1

-----------------------------------------------------------------------------
(* data_processor.py: the values the transforms work on *)

\* Python's None as a value of the pipeline.
PyNone == [type |-> "NoneType"]

\* A float: the number n / d, d > 0.  NaN is 0 / 0.
Float(n, d) == [type |-> "float", n |-> n, d |-> d]
NaN == Float(0, 0)

\* pd.isna(value) or value is None
IsNa(value) == value = NaN \/ value = PyNone

Abs(x) == IF x < 0 THEN -x ELSE x

\* n / d (n >= 0, d > 0) rounded to the nearest integer, ties to even: the
\* rounding of Python's fixed-point format.
Round(n, d) ==
    LET q == n \div d
        r == n % d
    IN  IF 2 * r < d THEN q
        ELSE IF 2 * r > d THEN q + 1
        ELSE IF q % 2 = 0 THEN q ELSE q + 1

\* f"{n / d:.2f}" (units = 100) and f"{n / d:.1f}" (units = 10): the minus
\* sign of a negative number, the digits before the point and the digits
\* after it.
Fixed(n, d, units) ==
    LET q == Abs(n) \div d
        h == Round((Abs(n) % d) * units, d)
    IN  [minus |-> n < 0, whole |-> q + h \div units, frac |-> h % units]

\* f"{n / (d * k):.2f}" for a k that 100 divides.
FixedOver(n, d, k) ==
    LET h == Round(Abs(n), d * (k \div 100))
    IN  [minus |-> n < 0, whole |-> h \div 100, frac |-> h % 100]

\* The text "N/A".
NA == [text |-> "N/A"]

\* format_number's size test without abs(): the signed value.
Magnitude_Signed(value) == value.n

\* abs(value), as a multiple of 1 / value.d
Magnitude(value) == Abs(value.n)

Billion == 10 ^ 9
Million == 10 ^ 6
Thousand == 10 ^ 3

\* abs(value) >= k
AtLeast(value, k) == Magnitude(value) \div value.d >= k

\* f"{prefix}{value / k:.2f}{suffix}"
Scaled(value, k, prefix, suffix) ==
    [prefix |-> prefix, suffix |-> suffix,
     number |-> IF k = 1 THEN Fixed(value.n, value.d, 100)
                ELSE FixedOver(value.n, value.d, k)]

\* format_number(value, prefix)
format_number(value, prefix) ==
    IF IsNa(value) THEN NA
    ELSE IF AtLeast(value, Billion) THEN Scaled(value, Billion, prefix, "B")
    ELSE IF AtLeast(value, Million) THEN Scaled(value, Million, prefix, "M")
    ELSE IF AtLeast(value, Thousand) THEN Scaled(value, Thousand, prefix, "K")
    ELSE Scaled(value, 1, prefix, "")

\* if percentage > 0
PlusSign(percentage) == percentage.n > 0

\* format_percentage(value): percentage = value * 100, one decimal.
format_percentage(value) ==
    IF IsNa(value) THEN NA
    ELSE LET percentage == Float(value.n * 100, value.d)
         IN  [plus |-> PlusSign(percentage),
              number |-> Fixed(percentage.n, percentage.d, 10),
              suffix |-> "%"]

-----------------------------------------------------------------------------
(* The formatters on their own *)

\* The cache layer and the page, which a transform does not touch.
outside ==
    <<clock, tzOffset, db, pc, call, attempt, data, ret, log, seen, committed,
      page>>

\* Amounts around the limits of the bands, of both signs, and two halves.
Amounts ==
    LET sizes == {0, 1, 999, Thousand, 1500, Million - 1, Million, 2300000,
                  Billion - 1, Billion, 1500000000}
    IN  {Float(n, 1) : n \in sizes} \cup {Float(-n, 1) : n \in sizes \ {0}}
        \cup {Float(1999, 2), Float(-1999, 2), Float(1, 2)}

\* Fractions as the `change` field of a summary holds them.
Fractions ==
    {Float(n, 1000) : n \in {-1000, -150, -1, 0, 1, 5, 150, 1000, 2500}}
    \cup {Float(1, 800), Float(-1, 10000), Float(1, 10000)}

Missing == {NaN, PyNone}
Prefixes == {"", "$"}

InitFormat ==
    /\ Quiet
    /\ tzOffset = 0
    /\ page = NoPage
    /\ frame \in {[fn |-> "none", arg |-> v] :
                    v \in Amounts \cup Fractions \cup Missing}

\* A caller formats an amount.
FormatNumber(prefix) ==
    /\ frame.fn = "none"
    /\ frame.arg \in Amounts \cup Missing
    /\ frame' = [fn |-> "format_number", arg |-> frame.arg, prefix |-> prefix,
                 out |-> format_number(frame.arg, prefix)]
    /\ UNCHANGED outside

\* A caller formats a fraction as a percentage.
FormatPercentage ==
    /\ frame.fn = "none"
    /\ frame.arg \in Fractions \cup Missing
    /\ frame' = [fn |-> "format_percentage", arg |-> frame.arg,
                 out |-> format_percentage(frame.arg)]
    /\ UNCHANGED outside

NextFormat ==
    \/ \E prefix \in Prefixes : FormatNumber(prefix)
    \/ FormatPercentage

SpecFormat == InitFormat /\ [][NextFormat]_vars

\* The digits of `number` are the decimal number with 1 / units as its
\* last place that is nearest to x = |n| / (d * k); units divides k unless
\* k = 1.
Nearest(number, n, d, k, units) ==
    LET q == Abs(n) \div (d * k)
        r == Abs(n) % (d * k)
    IN  /\ number.frac \in 0..(units - 1)
        /\ \/ /\ number.whole = q
              /\ IF k = 1
                   THEN 2 * Abs(number.frac * d - r * units) <= d
                   ELSE Abs(number.frac * (d * (k \div units)) - r)
                            <= (d * (k \div units)) \div 2
           \/ /\ number.whole = q + 1
              /\ number.frac = 0
              /\ IF k = 1
                   THEN 2 * (d - r) * units <= d
                   ELSE d * k - r <= (d * (k \div units)) \div 2

\* The band of a size x / d: the divisor it is shown by.
Band(x, d) ==
    IF x \div d >= Billion THEN Billion
    ELSE IF x \div d >= Million THEN Million
    ELSE IF x \div d >= Thousand THEN Thousand
    ELSE 1

\* out shows value divided by k with 2 decimals, with suffix B for billions
\* and M for millions and none for the raw value.
ShownBy(out, value, k) ==
    /\ out # NA
    /\ out.number.minus = (value.n < 0)
    /\ Nearest(out.number, value.n, value.d, k, 100)
    /\ k = Billion => out.suffix = "B"
    /\ k = Million => out.suffix = "M"
    /\ k = 1 => out.suffix = ""

Formatted == frame.fn = "format_number"

(***************************************************************************)
(* C18, as stated: format_number shows v in billions with suffix B when     *)
(* v >= 1e9, in millions with suffix M when v >= 1e6, in thousands when     *)
(* v >= 1e3 and any other value, the negative ones included, as the raw     *)
(* value, each with 2 decimals, and None or NaN as "N/A".                   *)
(***************************************************************************)
C18_MagnitudeFormatting ==
    Formatted =>
        IF IsNa(frame.arg) THEN frame.out = NA
        ELSE ShownBy(frame.out, frame.arg, Band(frame.arg.n, frame.arg.d))

(***************************************************************************)
(* C18, amended: the band is chosen by the absolute value of v, so a        *)
(* negative value is shown in the band of its size with its minus sign      *)
(* (-2_300_000 is "-2.30M"); None or NaN is "N/A".                          *)
(***************************************************************************)
C18_MagnitudeByAbs ==
    Formatted =>
        IF IsNa(frame.arg) THEN frame.out = NA
        ELSE ShownBy(frame.out, frame.arg, Band(Abs(frame.arg.n), frame.arg.d))

\* -2_300_000 has been formatted, in millions.
C18_Witness ==
    /\ Formatted
    /\ frame.arg = Float(-2300000, 1)
    /\ frame.out.suffix = "M"
    /\ frame.out.number = [minus |-> TRUE, whole |-> 2, frac |-> 30]

(***************************************************************************)
(* C15: format_percentage gives "N/A" for a missing fraction f and          *)
(* otherwise f * 100 with one decimal and a "%", with a leading "+" when    *)
(* f is positive or zero and with its minus sign when f is negative.        *)
(***************************************************************************)
C15_PercentageLabel ==
    frame.fn = "format_percentage" =>
        IF IsNa(frame.arg) THEN frame.out = NA
        ELSE /\ frame.out # NA
             /\ frame.out.suffix = "%"
             /\ Nearest(frame.out.number, frame.arg.n * 100, frame.arg.d, 1, 10)
             /\ frame.arg.n >= 0 => frame.out.plus /\ ~frame.out.number.minus
             /\ frame.arg.n < 0 => ~frame.out.plus /\ frame.out.number.minus

-----------------------------------------------------------------------------
(* Python strings: sequences of characters *)

Str(chars) == [type |-> "str", chars |-> chars]

LowerCase == <<"a", "b", "c", "d", "e", "f", "g", "h", "i", "j", "k", "l", "m">>
             \o <<"n", "o", "p", "q", "r", "s", "t", "u", "v", "w", "x", "y", "z">>
UpperCase == <<"A", "B", "C", "D", "E", "F", "G", "H", "I", "J", "K", "L", "M">>
             \o <<"N", "O", "P", "Q", "R", "S", "T", "U", "V", "W", "X", "Y", "Z">>

\* The characters in code point order.
Alphabet == <<" ">> \o UpperCase \o <<"_">> \o LowerCase

IndexIn(seq, c) == CHOOSE i \in 1..Len(seq) : seq[i] = c

Ord(c) == IndexIn(Alphabet, c)

\* str.lower() and str.upper() on one character
Lower(c) ==
    IF \E i \in 1..Len(UpperCase) : UpperCase[i] = c
      THEN LowerCase[IndexIn(UpperCase, c)] ELSE c
Upper(c) ==
    IF \E i \in 1..Len(LowerCase) : LowerCase[i] = c
      THEN UpperCase[IndexIn(LowerCase, c)] ELSE c

IsLetter(c) == Lower(c) # c \/ Upper(c) # c

\* s.lower()
LowerStr(s) == [i \in 1..Len(s) |-> Lower(s[i])]

\* keyword in s
Contains(s, keyword) ==
    \E i \in 1..(Len(s) - Len(keyword) + 1) :
        SubSeq(s, i, i + Len(keyword) - 1) = keyword

\* s.replace('_', ' ')
ReplaceUnderscores(s) == [i \in 1..Len(s) |-> IF s[i] = "_" THEN " " ELSE s[i]]

\* s.title(): a letter is upper case after a character that is not a
\* letter and lower case after a letter.
Title(s) ==
    [i \in 1..Len(s) |->
        IF i > 1 /\ IsLetter(s[i - 1]) THEN Lower(s[i]) ELSE Upper(s[i])]

\* s < t for Python strings
RECURSIVE StrLess(_, _)
StrLess(s, t) ==
    IF t = <<>> THEN FALSE
    ELSE IF s = <<>> THEN TRUE
    ELSE IF Head(s) # Head(t) THEN Ord(Head(s)) < Ord(Head(t))
    ELSE StrLess(Tail(s), Tail(t))

\* The identifiers the source names.
trading_volume ==
    <<"t", "r", "a", "d", "i", "n", "g", "_", "v", "o", "l", "u", "m", "e">>
fees == <<"f", "e", "e", "s">>
fees_supply_side ==
    <<"f", "e", "e", "s", "_", "s", "u", "p", "p", "l", "y", "_", "s", "i", 
      "d", "e">>
revenue == <<"r", "e", "v", "e", "n", "u", "e">>
market_cap_circulating ==
    <<"m", "a", "r", "k", "e", "t", "_", "c", "a", "p", "_", "c", "i", "r", 
      "c", "u", "l", "a", "t", "i", "n", "g">>
market_cap_fully_diluted ==
    <<"m", "a", "r", "k", "e", "t", "_", "c", "a", "p", "_", "f", "u", "l", 
      "l", "y", "_", "d", "i", "l", "u", "t", "e", "d">>
price == <<"p", "r", "i", "c", "e">>
token_trading_volume ==
    <<"t", "o", "k", "e", "n", "_", "t", "r", "a", "d", "i", "n", "g", "_", 
      "v", "o", "l", "u", "m", "e">>
active_developers ==
    <<"a", "c", "t", "i", "v", "e", "_", "d", "e", "v", "e", "l", "o", "p", 
      "e", "r", "s">>
code_commits == <<"c", "o", "d", "e", "_", "c", "o", "m", "m", "i", "t", "s">>
user_dau == <<"u", "s", "e", "r", "_", "d", "a", "u">>
user_mau == <<"u", "s", "e", "r", "_", "m", "a", "u">>
user_wau == <<"u", "s", "e", "r", "_", "w", "a", "u">>
token_supply_circulating ==
    <<"t", "o", "k", "e", "n", "_", "s", "u", "p", "p", "l", "y", "_", "c", 
      "i", "r", "c", "u", "l", "a", "t", "i", "n", "g">>
token_turnover_circulating ==
    <<"t", "o", "k", "e", "n", "_", "t", "u", "r", "n", "o", "v", "e", "r", 
      "_", "c", "i", "r", "c", "u", "l", "a", "t", "i", "n", "g">>
token_turnover_fully_diluted ==
    <<"t", "o", "k", "e", "n", "_", "t", "u", "r", "n", "o", "v", "e", "r", 
      "_", "f", "u", "l", "l", "y", "_", "d", "i", "l", "u", "t", "e", "d">>
pf_circulating ==
    <<"p", "f", "_", "c", "i", "r", "c", "u", "l", "a", "t", "i", "n", "g">>
pf_fully_diluted ==
    <<"p", "f", "_", "f", "u", "l", "l", "y", "_", "d", "i", "l", "u", "t", 
      "e", "d">>
ps_circulating ==
    <<"p", "s", "_", "c", "i", "r", "c", "u", "l", "a", "t", "i", "n", "g">>
ps_fully_diluted ==
    <<"p", "s", "_", "f", "u", "l", "l", "y", "_", "d", "i", "l", "u", "t", 
      "e", "d">>
raydium == <<"r", "a", "y", "d", "i", "u", "m">>
unknown == <<"u", "n", "k", "n", "o", "w", "n">>
gas_used == <<"g", "a", "s", "_", "u", "s", "e", "d">>
volume == <<"v", "o", "l", "u", "m", "e">>
user == <<"u", "s", "e", "r">>

-----------------------------------------------------------------------------
(* pandas: timestamps, frames and group-by *)

\* Days are counted from Monday 2024-01-01.  A timestamp of the payload is
\* the ISO text of a day; pd.to_datetime makes a Timestamp of it.
IsoText(day) == [type |-> "str", iso |-> day]
Timestamp(day) == [type |-> "Timestamp", day |-> day]
NaT == [type |-> "NaT"]

\* An exception that leaves the function.
Raised(name) == [type |-> "exception", name |-> name]
IsRaised(x) == x.type = "exception"

\* pd.to_datetime accepts the cell.
Parseable(cell) ==
    \/ cell.type = "Timestamp"
    \/ cell = NaN
    \/ cell.type = "str" /\ "iso" \in DOMAIN cell

\* pd.to_datetime on one cell
ToDatetime(cell) ==
    IF cell.type = "Timestamp" THEN cell
    ELSE IF cell = NaN THEN NaT
    ELSE Timestamp(cell.iso)

\* The Sunday before the week: a bucket label outside the bucket.
WeekStart_SundayBefore(day) == day - (day % 7) - 1

\* dt.to_period('W').dt.start_time: the Monday of the day's week.
WeekStart(day) == day - (day % 7)

\* The first days of January, February, March and April 2024.
MonthStarts == <<0, 31, 60, 91>>

\* dt.to_period('M').dt.start_time: the first day of the day's month.
MonthStart(day) ==
    LET i == CHOOSE i \in 1..Len(MonthStarts) :
                 /\ MonthStarts[i] <= day
                 /\ i < Len(MonthStarts) => day < MonthStarts[i + 1]
    IN  MonthStarts[i]

\* A DataFrame: its columns and its rows, each row a cell per column.
DataFrame(columns, rows) == [type |-> "DataFrame", columns |-> columns, rows |-> rows]

\* df.empty
IsEmpty(df) == df.rows = <<>> \/ df.columns = {}

RECURSIVE GCD(_, _)
GCD(a, b) == IF b = 0 THEN a ELSE GCD(b, a % b)

\* The float n / d (d > 0) in lowest terms.
Norm(n, d) == LET g == GCD(Abs(n), d) IN Float(n \div g, d \div g)

Add(a, b) == Norm(a.n * b.d + b.n * a.d, a.d * b.d)

RECURSIVE Total(_)
Total(values) ==
    IF values = <<>> THEN Float(0, 1) ELSE Add(Head(values), Total(Tail(values)))

\* The group-by reducers 'sum' and 'mean'; both skip NaN.
Reduce(agg_func, values) ==
    LET present == SelectSeq(values, LAMBDA v : v # NaN)
        total == Total(present)
    IN  IF agg_func = "sum" THEN total
        ELSE IF present = <<>> THEN NaN
        ELSE Norm(total.n, total.d * Len(present))

\* The reducer 'first': the first cell of the group that is not null.
First(cells) ==
    LET present == SelectSeq(cells, LAMBDA c : c # NaN)
    IN  IF present = <<>> THEN NaN ELSE Head(present)

\* Group keys (bucket day, metric id) in the order group-by sorts them.
KeyLess(j, k) == j[1] < k[1] \/ (j[1] = k[1] /\ StrLess(j[2], k[2]))

RECURSIVE SortKeys(_)
SortKeys(keys) ==
    IF keys = {} THEN <<>>
    ELSE LET least == CHOOSE k \in keys : \A j \in keys \ {k} : KeyLess(k, j)
         IN  <<least>> \o SortKeys(keys \ {least})

-----------------------------------------------------------------------------
(* data_processor.py: aggregate_daily_to_weekly, aggregate_daily_to_monthly *)

\* ['volume', 'fees', 'revenue', 'user']
Keywords == {volume, fees, revenue, user}

\* 'sum' if any(keyword in metric_id.lower() for keyword in [...]) else 'mean'
AggFunc(metric_id) ==
    IF \E keyword \in Keywords : Contains(LowerStr(metric_id), keyword)
      THEN "sum" ELSE "mean"

Column(rows, c) == [i \in 1..Len(rows) |-> rows[i][c]]

\* to_period('W') and to_period('M')
PeriodStart(period, day) ==
    IF period = "W" THEN WeekStart(day) ELSE MonthStart(day)

\* The body the two functions share.  The statements are taken in the order of the source, and
\* the first that raises ends the call: neither function has a handler.
Aggregate(df, period) ==
    IF df = PyNone THEN df
    ELSE IF \/ IsEmpty(df)
            \/ "timestamp" \notin df.columns
            \/ "value" \notin df.columns THEN df
    ELSE IF \E i \in 1..Len(df.rows) : ~Parseable(df.rows[i]["timestamp"])
      THEN Raised("ValueError")            \* pd.to_datetime
    ELSE IF "metric_id" \in df.columns /\ df.rows[1]["metric_id"].type # "str"
      THEN Raised("AttributeError")        \* metric_id.lower()
    ELSE IF "metric_id" \notin df.columns
      THEN Raised("KeyError")              \* groupby(['week', 'metric_id'])
    ELSE IF "data_id" \notin df.columns
      THEN Raised("KeyError")              \* agg({..., 'data_id': 'first'})
    ELSE
      LET metric_id == df.rows[1]["metric_id"].chars
          agg_func == AggFunc(metric_id)
          Bucket(row) ==
              LET t == ToDatetime(row["timestamp"])
              IN  IF t = NaT THEN NaT ELSE Timestamp(PeriodStart(period, t.day))
          \* group-by drops the rows with a null key
          keyed == SelectSeq(df.rows,
                      LAMBDA r : Bucket(r) # NaT /\ r["metric_id"].type = "str")
          keys == {<<Bucket(keyed[i]).day, keyed[i]["metric_id"].chars>> :
                      i \in 1..Len(keyed)}
          order == SortKeys(keys)
          Group(k) ==
              SelectSeq(keyed, LAMBDA r : /\ Bucket(r).day = k[1]
                                          /\ r["metric_id"].chars = k[2])
      IN  DataFrame({"data_id", "metric_id", "value", "timestamp"},
              [i \in 1..Len(order) |->
                  [data_id |-> First(Column(Group(order[i]), "data_id")),
                   metric_id |-> Str(order[i][2]),
                   value |-> Reduce(agg_func, Column(Group(order[i]), "value")),
                   timestamp |-> Timestamp(order[i][1])]])

aggregate_daily_to_weekly(df) == Aggregate(df, "W")

aggregate_daily_to_monthly(df) == Aggregate(df, "M")

-----------------------------------------------------------------------------
(* The aggregations on their own *)

MaxRows == 3

AllColumns == {"data_id", "metric_id", "timestamp", "value"}

\* A record of a time series as process_time_series leaves it.
MetricRecord(metric_id, day, value) ==
    [data_id |-> Str(raydium), metric_id |-> Str(metric_id),
     timestamp |-> Timestamp(day), value |-> value]

\* A level metric and a flow metric; the first and the last day of one week
\* and a day of the next month.
SeriesRecords ==
    {MetricRecord(m, d, v) :
        m \in {price, trading_volume}, d \in {0, 6, 31},
        v \in {Float(1, 1), Float(2, 1)}}

SeqsUpTo(S, n) == UNION {[1..k -> S] : k \in 0..n}

\* The seven days of the week of 2024-01-01 with the values 1..7.
WeekOf(metric_id) == [i \in 1..7 |-> MetricRecord(metric_id, i - 1, Float(i, 1))]

Trading_Volume == <<"T", "r", "a", "d", "i", "n", "g", "_", "V", "o", "l", "u", "m", "e">>

\* The frame without one of its columns.
Without(df, c) ==
    DataFrame(df.columns \ {c},
              [i \in 1..Len(df.rows) |-> [k \in df.columns \ {c} |-> df.rows[i][k]]])

\* The frame with one cell replaced in its first row.
WithCell(df, c, cell) ==
    DataFrame(df.columns, [df.rows EXCEPT ![1] = [@ EXCEPT ![c] = cell]])

WellFormed ==
    {DataFrame(AllColumns, rows) : rows \in SeqsUpTo(SeriesRecords, MaxRows)}
    \cup {DataFrame(AllColumns, WeekOf(m)) :
            m \in {price, trading_volume, Trading_Volume, user_dau, pf_circulating}}
    \cup {WithCell(DataFrame(AllColumns, rows), "value", NaN) :
            rows \in SeqsUpTo(SeriesRecords, 2) \ {<<>>}}

\* Frames of an unexpected structure: a column is missing, a metric id is
\* null, a timestamp is not a date; and no frame at all.
Malformed ==
    LET some == {DataFrame(AllColumns, rows) : rows \in SeqsUpTo(SeriesRecords, 1)}
    IN  {Without(df, c) : df \in some, c \in AllColumns}
        \cup {WithCell(df, "metric_id", NaN) : df \in some \ {DataFrame(AllColumns, <<>>)}}
        \cup {WithCell(df, "timestamp", Str(unknown)) :
                df \in some \ {DataFrame(AllColumns, <<>>)}}
        \cup {PyNone}

InitAggregate ==
    /\ Quiet
    /\ tzOffset = 0
    /\ page = NoPage
    /\ frame \in {[fn |-> "none", arg |-> df] : df \in WellFormed \cup Malformed}

AggregateWeekly ==
    /\ frame.fn = "none"
    /\ frame' = [fn |-> "aggregate_daily_to_weekly", arg |-> frame.arg,
                 out |-> aggregate_daily_to_weekly(frame.arg)]
    /\ UNCHANGED outside

AggregateMonthly ==
    /\ frame.fn = "none"
    /\ frame' = [fn |-> "aggregate_daily_to_monthly", arg |-> frame.arg,
                 out |-> aggregate_daily_to_monthly(frame.arg)]
    /\ UNCHANGED outside

\* The weekly series is aggregated by week once more.
AggregateWeeklyAgain ==
    /\ frame.fn = "aggregate_daily_to_weekly"
    /\ "daily" \notin DOMAIN frame
    /\ ~IsRaised(frame.out)
    /\ frame' = [fn |-> "aggregate_daily_to_weekly", daily |-> frame.arg,
                 arg |-> frame.out, out |-> aggregate_daily_to_weekly(frame.out)]
    /\ UNCHANGED outside

NextAggregate == AggregateWeekly \/ AggregateMonthly \/ AggregateWeeklyAgain

SpecAggregate == InitAggregate /\ [][NextAggregate]_vars

\* The frame holds metric records and nothing else.
RecordsOnly(df) ==
    /\ df # PyNone
    /\ df.columns = AllColumns
    /\ df.rows # <<>>
    /\ \A i \in 1..Len(df.rows) :
        /\ df.rows[i]["metric_id"].type = "str"
        /\ df.rows[i]["data_id"].type = "str"
        /\ df.rows[i]["timestamp"].type = "Timestamp"

\* The records of metric m that fall in the period starting on day b.
GroupOf(df, period, b, m) ==
    SelectSeq(df.rows, LAMBDA r : /\ PeriodStart(period, r["timestamp"].day) = b
                                  /\ r["metric_id"].chars = m)

Granularity(fn) == IF fn = "aggregate_daily_to_weekly" THEN "W" ELSE "M"

Aggregated == frame.fn \in {"aggregate_daily_to_weekly", "aggregate_daily_to_monthly"}

\* out has exactly one row for the bucket b of metric m, and value is its
\* value.
OneRowWith(out, b, m, value) ==
    LET found == SelectSeq(out.rows, LAMBDA r : /\ r["timestamp"] = Timestamp(b)
                                                /\ r["metric_id"] = Str(m))
    IN  Len(found) = 1 /\ found[1]["value"] = value

(***************************************************************************)
(* C12: for any sequence of metric records, of one metric id or of         *)
(* several, the weekly or monthly aggregate holds one row per (bucket,      *)
(* metric id) of the input, and the value of a row is the sum of its        *)
(* group's values when the row's metric id contains "volume", "fees",       *)
(* "revenue" or "user" in any case, and their mean otherwise.               *)
(***************************************************************************)
C12_ReducerPerMetric ==
    (Aggregated /\ RecordsOnly(frame.arg)) =>
        LET period == Granularity(frame.fn)
            df == frame.arg
            Key(i) == <<PeriodStart(period, df.rows[i]["timestamp"].day),
                        df.rows[i]["metric_id"].chars>>
        IN  /\ ~IsRaised(frame.out)
            /\ Len(frame.out.rows) = Cardinality({Key(i) : i \in 1..Len(df.rows)})
            /\ \A i \in 1..Len(df.rows) :
                 OneRowWith(frame.out, Key(i)[1], Key(i)[2],
                     Reduce(AggFunc(Key(i)[2]),
                            Column(GroupOf(df, period, Key(i)[1], Key(i)[2]), "value")))

(***************************************************************************)
(* C16: whatever frame an aggregation is given (a missing column, a null    *)
(* metric id, a timestamp that is no date, no frame at all), it returns     *)
(* and raises nothing.                                                      *)
(***************************************************************************)
C16_TransformsNeverRaise == Aggregated => ~IsRaised(frame.out)

OneMetric(df) ==
    \A i, j \in 1..Len(df.rows) : df.rows[i]["metric_id"] = df.rows[j]["metric_id"]

(***************************************************************************)
(* C17: for a record sequence r of one metric, the weekly aggregate of      *)
(* the weekly aggregate of r is the weekly aggregate of r: the same rows    *)
(* with the same values, each timestamp being the start of its week.        *)
(***************************************************************************)
C17_WeeklyIdempotent ==
    (/\ frame.fn = "aggregate_daily_to_weekly"
     /\ "daily" \in DOMAIN frame
     /\ RecordsOnly(frame.daily)
     /\ OneMetric(frame.daily)) =>
        /\ frame.out = frame.arg
        /\ \A i \in 1..Len(frame.out.rows) :
             WeekStart(frame.out.rows[i]["timestamp"].day)
                 = frame.out.rows[i]["timestamp"].day

\* Two weeks of a level metric, two records in the first, have been
\* aggregated twice: the mean 3/2 and the single value stay as they are.
C17_Witness ==
    /\ frame.fn = "aggregate_daily_to_weekly"
    /\ "daily" \in DOMAIN frame
    /\ frame.daily = DataFrame(AllColumns,
           <<MetricRecord(price, 0, Float(1, 1)), MetricRecord(price, 6, Float(2, 1)),
             MetricRecord(price, 31, Float(2, 1))>>)
    /\ Column(frame.out.rows, "value") = <<Float(3, 2), Float(2, 1)>>
    /\ Column(frame.out.rows, "timestamp") = <<Timestamp(0), Timestamp(28)>>

-----------------------------------------------------------------------------
(* data_processor.py: process_financial_statement *)

PyTuple(a, b) == [type |-> "tuple", items |-> <<a, b>>]

\* The payload of the financial statement: a dict with the records under
\* result.data, or a list whose first item is such a dict (the batch form).
Envelope(records) == [type |-> "dict", result_data |-> records]
Batch(items) == [type |-> "list", items |-> items]

financial_metrics ==
    {trading_volume, fees, fees_supply_side, revenue, market_cap_circulating,
     market_cap_fully_diluted, price, token_trading_volume}

operational_metrics ==
    {active_developers, code_commits, user_dau, user_mau, user_wau,
     token_supply_circulating, token_turnover_circulating,
     token_turnover_fully_diluted, pf_circulating, pf_fully_diluted,
     ps_circulating, ps_fully_diluted}

\* pd.DataFrame(result_data): a column per key that occurs, NaN where a
\* record lacks the key.
FrameOf(records) ==
    LET columns == UNION {DOMAIN records[i] : i \in 1..Len(records)}
    IN  DataFrame(columns,
            [i \in 1..Len(records) |->
                [c \in columns |->
                    IF c \in DOMAIN records[i] THEN records[i][c] ELSE NaN]])

\* strftime('%b %Y') and, back, pd.to_datetime(x, format='%b %Y')
MonthNames == <<"Jan", "Feb", "Mar", "Apr">>
MonthYear(t) ==
    [type |-> "str", mon |-> MonthNames[IndexIn(MonthStarts, MonthStart(t.day))],
     year |-> 2024]
LabelDate(label) == Timestamp(MonthStarts[IndexIn(MonthNames, label.mon)])

\* Series.unique(): the values in the order of their first appearance.
RECURSIVE Unique(_)
Unique(cells) ==
    IF cells = <<>> THEN <<>>
    ELSE LET front == Unique(SubSeq(cells, 1, Len(cells) - 1))
             last == cells[Len(cells)]
         IN  IF \E i \in 1..Len(front) : front[i] = last
               THEN front ELSE Append(front, last)

\* sorted(all_months, key=..., reverse=True): most recent first.
RECURSIVE SortedRecentFirst(_)
SortedRecentFirst(labels) ==
    IF labels = {} THEN <<>>
    ELSE LET latest == CHOOSE l \in labels :
                           \A k \in labels : LabelDate(k).day <= LabelDate(l).day
         IN  <<latest>> \o SortedRecentFirst(labels \ {latest})

\* ((value - prev_value) / prev_value) * 100
PctChange(value, prev_value) ==
    LET n == 100 * (value.n * prev_value.d - prev_value.n * value.d)
        d == value.d * prev_value.n
    IN  IF d < 0 THEN Norm(-n, -d) ELSE Norm(n, d)

\* The change is taken against the period after, the more recent one.
PrevIndex_Newer(i) == i - 1

\* prev_month = all_months[i + 1]: the next older period.
PrevIndex(i) == i + 1

\* A cell of the formatted table: the magnitude, the indicator and the
\* change in brackets.
Cell(magnitude, symbol, change) ==
    [magnitude |-> magnitude, symbol |-> symbol, change |-> change]

\* create_formatted_table(data_df, is_financial)
create_formatted_table(rows, is_financial) ==
    IF rows = <<>> THEN PyNone
    ELSE
      LET all_metrics == Unique(Column(rows, "metric_id"))
          all_months == SortedRecentFirst(
                            {rows[i]["month_year"] : i \in 1..Len(rows)})
          prefix == IF is_financial THEN "$" ELSE ""
          \* pivot_table(..., aggfunc='mean'): NaN where the group has no value
          pivot ==
              [k \in 1..Len(all_metrics) |-> [j \in 1..Len(all_months) |->
                  Reduce("mean", Column(SelectSeq(rows,
                      LAMBDA r : /\ r["metric_id"] = all_metrics[k]
                                 /\ r["month_year"] = all_months[j]),
                      "value"))]]
          \* pivot_table drops the rows and the columns that are all NaN
          InIndex(k) == \E j \in 1..Len(all_months) : pivot[k][j] # NaN
          InColumns(j) == \E k \in 1..Len(all_metrics) : pivot[k][j] # NaN
          Has(k, j) == InColumns(j) /\ pivot[k][j] # NaN
          FormattedValue(k, i) ==
              LET value == pivot[k][i]
                  magnitude == format_number(value, prefix)
              IN  IF ~Has(k, i) THEN NA
                  ELSE IF ~(PrevIndex(i) \in 1..Len(all_months))
                    THEN Cell(magnitude, "", NA)
                  ELSE IF ~Has(k, PrevIndex(i))
                    THEN Cell(magnitude, "", NA)
                  ELSE LET prev_value == pivot[k][PrevIndex(i)]
                       IN  IF prev_value.n = 0 THEN Cell(magnitude, "", NA)
                           ELSE LET pct_change == PctChange(value, prev_value)
                                    text == [plus |-> pct_change.n > 0,
                                             number |-> Fixed(pct_change.n, pct_change.d, 10),
                                             suffix |-> "%"]
                                IN  IF pct_change.n > 0 THEN Cell(magnitude, "up", text)
                                    ELSE IF pct_change.n < 0
                                      THEN Cell(magnitude, "down", text)
                                    ELSE Cell(magnitude, "flat", text)
          \* for metric in all_metrics: if metric in pivot_df.index
          shown == SelectSeq([k \in 1..Len(all_metrics) |-> k], InIndex)
      IN  [type |-> "DataFrame",
           index |-> [n \in 1..Len(shown) |->
                         Str(Title(ReplaceUnderscores(all_metrics[shown[n]].chars)))],
           columns |-> all_months,
           cells |-> [n \in 1..Len(shown) |->
                         [i \in 1..Len(all_months) |-> FormattedValue(shown[n], i)]]]

\* A filter that lets every metric id through.
IsIn_Any(cell, metric_ids) == cell.type = "str"

\* Series.isin(metric_ids) on one cell
IsIn(cell, metric_ids) == cell.type = "str" /\ cell.chars \in metric_ids

\* except Exception: the error is printed
Caught == PyTuple(PyNone, PyNone)

\* process_financial_statement(data)
process_financial_statement(payload) ==
    IF payload.type = "list" /\ payload.items = <<>>
      THEN Caught                       \* [].get raises AttributeError
    ELSE
      LET result_data == IF payload.type = "list"
                           THEN payload.items[1].result_data
                           ELSE payload.result_data
          df == FrameOf(result_data)
      IN  IF result_data = <<>> THEN PyTuple(PyNone, PyNone)
          ELSE IF "metric_id" \notin df.columns
            THEN Caught                 \* df['metric_id'] raises KeyError
          ELSE IF "timestamp" \notin df.columns \/ "value" \notin df.columns
            THEN PyTuple(df, PyNone)
          ELSE IF \E i \in 1..Len(df.rows) : ~Parseable(df.rows[i]["timestamp"])
            THEN Caught                 \* pd.to_datetime raises
          ELSE
            LET dated ==
                    [i \in 1..Len(df.rows) |->
                        [c \in df.columns \cup {"month_year"} |->
                            IF c = "timestamp" THEN ToDatetime(df.rows[i][c])
                            ELSE IF c = "month_year"
                              THEN MonthYear(ToDatetime(df.rows[i]["timestamp"]))
                            ELSE df.rows[i][c]]]
                financial_df == SelectSeq(dated,
                    LAMBDA r : IsIn(r["metric_id"], financial_metrics))
                operational_df == SelectSeq(dated,
                    LAMBDA r : IsIn(r["metric_id"], operational_metrics))
            IN  PyTuple(create_formatted_table(financial_df, TRUE),
                        create_formatted_table(operational_df, FALSE))

-----------------------------------------------------------------------------
(* The financial statement transform on its own *)

StatementRecord(metric_id, day, value) ==
    [metric_id |-> Str(metric_id), timestamp |-> IsoText(day), value |-> value]

\* A financial metric over three months with a zero, a rise and a fall and
\* a null value; an operational metric over the same months; a metric of
\* neither set.
StatementRecords ==
    {StatementRecord(fees, d, Float(v, 1)) : d \in {0, 31, 60}, v \in {0, 100, 150}}
    \cup {StatementRecord(fees, 31, NaN)}
    \cup {StatementRecord(user_dau, d, Float(100, 1)) : d \in {0, 60}}
    \cup {StatementRecord(gas_used, 31, Float(100, 1))}

\* The records without one of their fields.
Lacking(records, field) ==
    [i \in 1..Len(records) |->
        [c \in DOMAIN records[i] \ {field} |-> records[i][c]]]

\* The first record with a timestamp that is no date.
Undated(records) ==
    [records EXCEPT ![1] = [@ EXCEPT !["timestamp"] = Str(unknown)]]

StatementPayloads ==
    LET few == SeqsUpTo(StatementRecords, 2) \ {<<>>}
    IN  {Envelope(rs) : rs \in SeqsUpTo(StatementRecords, MaxRows)}
        \cup {Batch(<<Envelope(rs)>>) : rs \in SeqsUpTo(StatementRecords, 1)}
        \cup {Batch(<<>>)}
        \cup {Envelope(Lacking(rs, f)) :
                rs \in few, f \in {"metric_id", "timestamp", "value"}}
        \cup {Envelope(Undated(rs)) : rs \in few}

InitFinancial ==
    /\ Quiet
    /\ tzOffset = 0
    /\ page = NoPage
    /\ frame \in {[fn |-> "none", arg |-> payload] : payload \in StatementPayloads}

ProcessFinancialStatement ==
    /\ frame.fn = "none"
    /\ frame' = [fn |-> "process_financial_statement", arg |-> frame.arg,
                 out |-> process_financial_statement(frame.arg)]
    /\ UNCHANGED outside

NextFinancial == ProcessFinancialStatement

SpecFinancial == InitFinancial /\ [][NextFinancial]_vars

Processed == frame.fn = "process_financial_statement"

\* The records of the payload.
RecordsOf(payload) ==
    IF payload.type = "list" THEN payload.items[1].result_data
    ELSE payload.result_data

IsPivot(x) == x.type = "DataFrame" /\ "cells" \in DOMAIN x
IsRaw(x) == x.type = "DataFrame" /\ "rows" \in DOMAIN x

\* The row label of a metric.
Display(metric_id) == Str(Title(ReplaceUnderscores(metric_id)))

KnownMetrics == financial_metrics \cup operational_metrics \cup {gas_used}

\* The row labels of the metrics, no two alike.
DisplayOf == [m \in KnownMetrics |-> Display(m)]

\* The value of metric m in the period of a label: the mean of its records
\* of that month, NaN when it has none with a value.
ValueIn(records, m, label) ==
    Reduce("mean", Column(SelectSeq(records,
        LAMBDA r : /\ r["metric_id"] = Str(m)
                   /\ MonthYear(ToDatetime(r["timestamp"])) = label), "value"))

\* The cell shows no change: "N/A" in the brackets and no indicator.
NoChange(cell) == cell.change = NA /\ cell.symbol = ""

\* The cell shows the change pct with one decimal and its indicator.
ShowsChange(cell, pct) ==
    /\ cell.change # NA
    /\ Nearest(cell.change.number, pct.n, pct.d, 1, 10)
    /\ pct.n > 0 => cell.symbol = "up" /\ cell.change.plus
    /\ pct.n < 0 => cell.symbol = "down" /\ cell.change.number.minus
    /\ pct.n = 0 => cell.symbol = "flat"

\* The cells of table t, built from `records`, carry the change against the
\* next older period of the table.
ChangesAgainstOlder(t, records) ==
    \A k \in 1..Len(t.index), i \in 1..Len(t.columns) :
        LET m == CHOOSE m \in KnownMetrics : DisplayOf[m] = t.index[k]
            cell == t.cells[k][i]
            value == ValueIn(records, m, t.columns[i])
            prev == IF i < Len(t.columns)
                      THEN ValueIn(records, m, t.columns[i + 1]) ELSE NaN
        IN  /\ i < Len(t.columns) =>
                 LabelDate(t.columns[i + 1]).day < LabelDate(t.columns[i]).day
            /\ IF value = NaN THEN cell = NA
               ELSE /\ cell # NA
                    /\ ShownBy(cell.magnitude, value, Band(Abs(value.n), value.d))
                    /\ IF prev = NaN \/ prev.n = 0 THEN NoChange(cell)
                       ELSE ShowsChange(cell, PctChange(value, prev))

(***************************************************************************)
(* C13: in each pivot table the cell of metric m in period p carries the    *)
(* magnitude and pct = (value - prev) / prev * 100 against the value of m   *)
(* in the next older period, with the indicator up, down or flat by the     *)
(* sign of pct; in the oldest period, or when the previous value is zero    *)
(* or absent, it carries the magnitude with "N/A" and no indicator.         *)
(***************************************************************************)
C13_PivotPercentageChange ==
    Processed =>
        \A j \in 1..2 :
            IsPivot(frame.out.items[j]) =>
                ChangesAgainstOlder(frame.out.items[j], RecordsOf(frame.arg))

\* fees 100 in Jan 2024 and 150 in Feb 2024: +50.0% up in Feb, N/A in Jan.
C13_Witness ==
    /\ Processed
    /\ frame.arg = Envelope(<<StatementRecord(fees, 0, Float(100, 1)),
                              StatementRecord(fees, 31, Float(150, 1))>>)
    /\ LET t == frame.out.items[1]
       IN  /\ t.index = <<Str(<<"F", "e", "e", "s">>)>>
           /\ Column(t.columns, "mon") = <<"Feb", "Jan">>
           /\ t.cells[1][1].symbol = "up"
           /\ t.cells[1][1].change =
                  [plus |-> TRUE, suffix |-> "%",
                   number |-> [minus |-> FALSE, whole |-> 50, frac |-> 0]]
           /\ NoChange(t.cells[1][2])
           /\ t.cells[1][2].magnitude.number = [minus |-> FALSE, whole |-> 100, frac |-> 0]

\* The metric ids that have a row in a result of the transform: the row
\* labels of a pivot table, the records of a raw table.
MetricsIn(x) ==
    IF IsPivot(x)
      THEN {m \in KnownMetrics : \E k \in 1..Len(x.index) : x.index[k] = DisplayOf[m]}
    ELSE IF IsRaw(x) /\ "metric_id" \in x.columns
      THEN {x.rows[i]["metric_id"].chars : i \in 1..Len(x.rows)}
    ELSE {}

Partitioned ==
    /\ MetricsIn(frame.out.items[1]) \subseteq financial_metrics
    /\ MetricsIn(frame.out.items[2]) \subseteq operational_metrics

(***************************************************************************)
(* C14, as stated: for any payload, the first result holds rows of          *)
(* financial-set metrics only and the second rows of operational-set        *)
(* metrics only, so a record of neither set (gas_used) has no row in        *)
(* either.                                                                  *)
(***************************************************************************)
C14_PartitionCompleteness == Processed => Partitioned

\* The flattened payload has the three fields of a metric record.
HasRecordFields(payload) ==
    LET records == RecordsOf(payload)
    IN  {"metric_id", "timestamp", "value"}
            \subseteq UNION {DOMAIN records[i] : i \in 1..Len(records)}

(***************************************************************************)
(* C14, amended: for any payload whose flattened records have the fields    *)
(* metric_id, timestamp and value, the first result holds rows of           *)
(* financial-set metrics only and the second rows of operational-set        *)
(* metrics only; a record of neither set has no row in either.              *)
(***************************************************************************)
C14_PartitionOfRecords ==
    (Processed /\ frame.arg # Batch(<<>>) /\ HasRecordFields(frame.arg))
        => Partitioned

\* A payload with a record of each kind has been processed: fees has its
\* row in the first table, user_dau in the second, gas_used in neither.
C14_Witness ==
    /\ Processed
    /\ frame.arg = Envelope(<<StatementRecord(gas_used, 31, Float(100, 1)),
                              StatementRecord(fees, 0, Float(100, 1)),
                              StatementRecord(user_dau, 0, Float(100, 1))>>)
    /\ MetricsIn(frame.out.items[1]) = {fees}
    /\ MetricsIn(frame.out.items[2]) = {user_dau}

-----------------------------------------------------------------------------
(* main.py: the financial sections of the page *)

\* What the payloads of the upstream hold when they are financial
\* statements: A has a financial and an operational metric, B has a metric
\* of neither set.
ContentOf(payload) ==
    IF payload = "A"
      THEN Envelope(<<StatementRecord(fees, 0, Float(100, 1)),
                      StatementRecord(fees, 31, Float(150, 1)),
                      StatementRecord(user_dau, 31, Float(100, 1))>>)
      ELSE Envelope(<<StatementRecord(gas_used, 31, Float(100, 1))>>)

\* load_financial_data(_api_client, use_cache), after the fetch has
\* returned `fetched`: `if data: return process_financial_statement(data)`,
\* else `return None`.
load_financial_data(fetched) ==
    IF Truthy(fetched) THEN process_financial_statement(ContentOf(fetched))
    ELSE PyNone

\* A section of the page: the table, or the note that there is no data.
Section(table) ==
    IF table # PyNone /\ ~(IsRaw(table) /\ IsEmpty(table)) THEN "dataframe" ELSE "info"

\* main() calls load_financial_data, which starts the fetch.
StartPage(p, c) ==
    /\ page.at = "start"
    /\ pc[p] = "idle"
    /\ call' = [call EXCEPT ![p] = c]
    /\ pc' = [pc EXCEPT ![p] = IF c.use_cache THEN "is_data_fresh" ELSE "request"]
    /\ attempt' = [attempt EXCEPT ![p] = 0]
    /\ data' = [data EXCEPT ![p] = None]
    /\ ret' = [ret EXCEPT ![p] = None]
    /\ log' = [log EXCEPT ![p] = <<>>]
    /\ seen' = [seen EXCEPT ![p] = NothingSeen]
    /\ page' = [at |-> "fetching"]
    /\ UNCHANGED <<clock, tzOffset, db, committed, frame>>

\* The fetch returns into load_financial_data, which returns into main.
LoadFinancialData(p) ==
    /\ page.at = "fetching"
    /\ pc[p] = "done"
    /\ page' = [at |-> "loaded", fetched |-> ret[p],
                result |-> load_financial_data(ret[p])]
    /\ pc' = [pc EXCEPT ![p] = "idle"]
    /\ call' = [call EXCEPT ![p] = NoCall]
    /\ attempt' = [attempt EXCEPT ![p] = 0]
    /\ data' = [data EXCEPT ![p] = None]
    /\ ret' = [ret EXCEPT ![p] = None]
    /\ log' = [log EXCEPT ![p] = <<>>]
    /\ seen' = [seen EXCEPT ![p] = NothingSeen]
    /\ UNCHANGED <<clock, tzOffset, db, committed, frame>>

\* financial_data, operational_data = load_financial_data(...), and the two
\* sections.  Unpacking a value that is not a pair raises TypeError, which
\* main does not catch.
RenderFinancialSections ==
    /\ page.at = "loaded"
    /\ page' = IF page.result.type = "tuple"
                 THEN [at |-> "rendered",
                       financial |-> Section(page.result.items[1]),
                       operational |-> Section(page.result.items[2])]
                 ELSE [at |-> "failed", error |-> "TypeError"]
    /\ UNCHANGED <<clock, tzOffset, db, pc, call, attempt, data, ret, log, seen,
                   committed, frame>>

\* The script runs again (a widget changed, the page was reloaded).
Rerun ==
    /\ page.at \in {"rendered", "failed"}
    /\ page' = NoPage
    /\ UNCHANGED <<clock, tzOffset, db, pc, call, attempt, data, ret, log, seen,
                   committed, frame>>

PageCalls == {c \in Calls : c.fn = "get_financial_statement"}

NextPage ==
    \/ Tick
    \/ \E c \in PageCalls : StartPage(Main, c)
    \/ GetCachedDataCheck(Main)
    \/ GetCachedDataRead(Main)
    \/ \E r \in CacheResponses, j \in BOOLEAN : Attempt(Main, r, j)
    \/ CacheData(Main)
    \/ LoadFinancialData(Main)
    \/ RenderFinancialSections
    \/ Rerun

SpecPage == Init /\ [][NextPage]_vars

(***************************************************************************)
(* C11: load_financial_data returns a pair in every case, and the pair      *)
(* (None, None) when the fetch returned nothing, so that the page shows     *)
(* its sections (with "no data available") and does not fail.               *)
(***************************************************************************)
C11_LoaderReturnsPair ==
    /\ page.at = "loaded" =>
         /\ page.result.type = "tuple"
         /\ ~Truthy(page.fetched) => page.result = PyTuple(PyNone, PyNone)
    /\ page.at # "failed"

-----------------------------------------------------------------------------
(* The freshness window of a get *)

\* config.py: "Cache duration (in hours)".  No module reads it.
CACHE_DURATION == 1

\* The windows a caller may want applied to a get: the configured one and
\* one twice as long.
Windows == {CACHE_DURATION, 2 * CACHE_DURATION}

\* A query whose caller wants the window `hours` applied.  Neither the
\* queries nor get_cached_data(table, identifier) have a parameter that
\* takes a window, so it stays with the caller; get_cached_data calls
\* is_data_fresh(table, identifier) with the default of `hours`.
WindowCall(c, hours) ==
    [fn |-> c.fn, table |-> c.table, cache_key |-> c.cache_key,
     use_cache |-> c.use_cache, hours |-> hours]

WindowCalls == {WindowCall(c, h) : c \in {d \in DashboardCalls : d.use_cache},
                                   h \in Windows}

NextWindow == Tick \/ Fetch(Main, WindowCalls, CacheResponses)

SpecWindow == Init /\ [][NextWindow]_vars

\* The get of the fetch answered from the cache.
Hit(p) == pc[p] = "select_data" \/ seen[p].read

(* C19: the freshness window of a get is the caller's: a get whose caller   *)
(* asked for the window W finds an entry stamped T fresh exactly when the  *)
(* clock value T' it reads has T' - T < W hours, whether W is 1 or not.    *)

C19_WindowPerCall ==
    \A p \in Procs :
        (FoundEntry(p) /\ "hours" \in DOMAIN call[p]) =>
            (Hit(p) <=> seen[p].now - StampedAt(p) < call[p].hours * 3600)

-----------------------------------------------------------------------------
(* The interval of a time series *)

Intervals == {"365d", "30d"}

\* get_time_series(metric_id, project_slug, interval, use_cache): the
\* interval goes into the request's payload and not into cache_key.
TimeSeriesCallOver(metric_id, project_slug, interval, use_cache) ==
    [fn |-> "get_time_series", table |-> "time_series",
     cache_key |-> TimeSeriesCall(metric_id, project_slug, use_cache).cache_key,
     use_cache |-> use_cache, interval |-> interval]

IntervalCalls ==
    {TimeSeriesCallOver(m, s, i, TRUE) :
        m \in MetricIds, s \in ProjectSlugs, i \in Intervals}

\* The upstream's series of a metric over an interval: the payload of a
\* year differs from the payload of a month.
SeriesOver(interval) == IF interval = "365d" THEN "A" ELSE "B"

\* One iteration of _make_request's loop for a time series: a payload the
\* upstream gives is the series over the interval of the request.
AttemptOver(p, r, jsonErrorCaught) ==
    /\ pc[p] = "request"
    /\ r.body \in Payloads => r.body = SeriesOver(call[p].interval)
    /\ Attempt(p, r, jsonErrorCaught)

NextInterval ==
    \/ Tick
    \/ \E c \in IntervalCalls : Call(Main, c)
    \/ GetCachedDataCheck(Main)
    \/ GetCachedDataRead(Main)
    \/ \E r \in CacheResponses, j \in BOOLEAN : AttemptOver(Main, r, j)
    \/ CacheData(Main)
    \/ Return(Main)

SpecInterval == Init /\ [][NextInterval]_vars

(* C20: a cache hit returned by get_time_series(metric_id, project_slug,   *)
(* interval) is a payload the upstream gave for the same interval: after a *)
(* fetch of one interval was cached, a fetch of the same metric and        *)
(* project over another interval does not return the payload of the first. *)

C20_KeyFromAllParameters ==
    \A p \in Procs :
        (/\ pc[p] = "done"
         /\ seen[p].read
         /\ call[p].fn = "get_time_series"
         /\ "interval" \in DOMAIN call[p]) =>
            ret[p] = SeriesOver(call[p].interval)

-----------------------------------------------------------------------------
(* process_financial_statement: the fallback for records of another shape *)

\* The fields of a metric record that no record of the payload has.
FieldsLacking(payload) ==
    LET records == RecordsOf(payload)
    IN  {"metric_id", "timestamp", "value"}
            \ UNION {DOMAIN records[i] : i \in 1..Len(records)}

\* The payload has records, and they lack a field of a metric record.
OfAnotherShape(payload) ==
    /\ payload # Batch(<<>>)
    /\ RecordsOf(payload) # <<>>
    /\ FieldsLacking(payload) # {}

(* C21: whenever the flattened payload is not empty and lacks one of the   *)
(* fields metric_id, timestamp and value, process_financial_statement      *)
(* returns the flattened table as it is as its first result and None as    *)
(* its second, not (None, None).                                           *)

C21_DegradedFallback ==
    (Processed /\ OfAnotherShape(frame.arg)) =>
        frame.out = PyTuple(FrameOf(RecordsOf(frame.arg)), PyNone)

-----------------------------------------------------------------------------
(* _get_headers: the user agent of a request *)

\* What self.ua.random may give.
UserAgents == {"Mozilla/5.0 (X11)", "Mozilla/5.0 (Macintosh)"}

\* _get_headers() ran: 'user-agent': self.ua.random
DrawEvent(user_agent) == [ev |-> "draw", user_agent |-> user_agent]

\* _make_request, before its loop: headers = self._get_headers()
GetHeaders(p, user_agent) ==
    /\ pc[p] = "request"
    /\ log[p] = <<>>
    /\ log' = [log EXCEPT ![p] = <<DrawEvent(user_agent)>>]
    /\ UNCHANGED <<clock, tzOffset, db, pc, call, attempt, data, ret, seen,
                   committed, page, frame>>

\* One iteration of the loop, which sends the headers it was given.
AttemptWithHeaders(p, r, jsonErrorCaught) ==
    /\ log[p] # <<>>
    /\ Attempt(p, r, jsonErrorCaught)

NextHeaders ==
    \/ \E c \in {d \in Calls : ~d.use_cache} : Call(Main, c)
    \/ \E ua \in UserAgents : GetHeaders(Main, ua)
    \/ \E r \in Responses, j \in BOOLEAN : AttemptWithHeaders(Main, r, j)
    \/ Return(Main)

SpecHeaders == Init /\ [][NextHeaders]_vars

\* The positions of the call's log at which a request was sent.
Sent(p) == {i \in 1..Len(log[p]) : log[p][i].ev = "request"}

\* The user agent was drawn for the request sent at i: after the request
\* before it, if there is one.
DrawnFor(p, i) ==
    \E j \in 1..(i - 1) :
        /\ log[p][j].ev = "draw"
        /\ \A k \in (j + 1)..(i - 1) : log[p][k].ev # "request"

(* C22: in a call of _make_request every attempt's request carries a user  *)
(* agent drawn for that attempt, not the one drawn for an earlier attempt  *)
(* of the call.                                                            *)

C22_UserAgentPerAttempt ==
    \A p \in Procs : \A i \in Sent(p) : DrawnFor(p, i)

-----------------------------------------------------------------------------
(* The frame of the cache store *)

\* One fetch at a time, every answer of the upstream: transport failures
\* and bodies that are not JSON included.  The three queries through the
\* cache, and one of them past it.
StoreCalls ==
    {c \in DashboardCalls : c.use_cache \/ c.fn = "get_financial_statement"}

NextStore == Tick \/ Fetch(Main, StoreCalls, Responses)

SpecStore == Init /\ [][NextStore]_vars

\* Fetch p is at its write-through: called with use_cache true, not served
\* from the cache, its last request answered 200 with a non-empty payload.
Writing(p) ==
    /\ pc[p] = "cache_data"
    /\ call[p].use_cache
    /\ ~seen[p].read
    /\ log[p] # <<>>
    /\ log[p][Len(log[p])] = [ev |-> "request", status |-> 200]
    /\ data[p] \in Payloads

\* The step changes the tables by the put of fetch p alone: the rows of
\* the other tables and of the other keys stay as they are.
PutOf(p) ==
    /\ \A t \in Tables \ {call[p].table} : db'[t] = db[t]
    /\ SelectSeq(db'[call[p].table], LAMBDA r : ~Matches(r, call[p].cache_key))
         = SelectSeq(db[call[p].table], LAMBDA r : ~Matches(r, call[p].cache_key))
    /\ SelectSeq(db'[call[p].table], LAMBDA r : Matches(r, call[p].cache_key))
         = <<NewRow(call[p].cache_key, data[p])>>
    /\ ret'[p] = data[p]

\* Every row of the store holds a non-empty payload.
NoAbsentStored ==
    \A t \in Tables : \A i \in 1..Len(db[t]) : db[t][i]["data"][2] \in Payloads

(* C23: the content of the three tables changes only in a fetch called     *)
(* with use_cache true whose upstream request returned a non-empty 200     *)
(* payload, and then by that put alone; a fetch with use_cache false, a    *)
(* fetch served by a cache hit and a fetch whose request ended with None   *)
(* leave every table as it was (a stale entry is neither removed nor       *)
(* overwritten), and no None or empty payload is ever stored.              *)

C23_CacheStoreFrame ==
    /\ [][db' # db => \E p \in Procs : Writing(p) /\ PutOf(p)]_vars
    /\ []NoAbsentStored

\* A fetch that found a stale entry and whose request ended with None has
\* returned None; the stale entry is still the one stored.
C23_Witness ==
    /\ pc[Main] = "done"
    /\ call[Main].use_cache
    /\ FoundEntry(Main)
    /\ seen[Main].now - StampedAt(Main) >= 3600
    /\ log[Main] # <<>>
    /\ ret[Main] = None
    /\ Stored(Main) = seen[Main].row

-----------------------------------------------------------------------------
(* get_cached_data: two statements, with puts of other fetches in between *)

\* The entry fetch p's freshness check found was fresh.
PassedCheck(p) == FoundEntry(p) /\ seen[p].now - StampedAt(p) < 3600

\* The payload read of fetch p returns the payload of the entry now stored,
\* which is the one its check found or one put since.
ReadsCurrentEntry(p) ==
    /\ PassedCheck(p)
    /\ Stored(p) # <<>>
    /\ Stored(p)[1]["created_at"][2] >= StampedAt(p)
    /\ ret'[p] = Stored(p)[1]["data"][2]
    /\ ret'[p] \in Payloads

(* C24: get_cached_data runs the freshness check and the payload read as   *)
(* two statements; under every interleaving with puts of other fetches to  *)
(* the same table and key, the payload it returns is that of an entry      *)
(* whose created_at is not older than the created_at of the entry that     *)
(* passed the check: it never returns the payload of an entry that was     *)
(* stale when checked, and after a check that passed it never returns      *)
(* None.                                                                   *)

C24_TwoStepGet ==
    /\ [][\A p \in Procs : ReadBy(p) => ReadsCurrentEntry(p)]_vars
    /\ [](\A p \in Procs :
            /\ (pc[p] = "select_data" \/ seen[p].read) => PassedCheck(p)
            /\ (seen[p].read /\ seen[p].failed = "none") =>
                   (pc[p] = "done" /\ ret[p] \in Payloads))

\* Between the check and the read of one fetch another fetch has put a
\* different payload under the key: the read returned the newer one.
C24_Witness ==
    \E p \in Procs :
        /\ pc[p] = "done"
        /\ seen[p].read
        /\ seen[p].failed = "none"
        /\ Stored(p)[1]["created_at"][2] > StampedAt(p)
        /\ ret[p] # PayloadFound(p)
        /\ ret[p] = Stored(p)[1]["data"][2]

====
